---- MODULE Spec2Model ----
(***************************************************************************)
(* Change-detection and notification-commit engine of signed-merch-search. *)
(*                                                                         *)
(* One runner (run_checker.main runs the selected sites one after the      *)
(* other) executes cycles of ProductChecker.run (plain sites) and of       *)
(* TaylorSwiftChecker.run (the cooldown site).  A cycle is a sequence of   *)
(* steps; every network call (fetch, send_email) and every file write is   *)
(* one step, and the process may be interrupted between two steps.  File   *)
(* writes are atomic.                                                      *)
(***************************************************************************)
EXTENDS Integers, Sequences, FiniteSets, TLC

VARIABLES
    fs,         \* the data/seen directory: file name -> content
    clock,      \* wall clock (time.time()) as of the last cycle start
    pc,         \* position of the runner inside run()
    loc,        \* local variables of the running cycle
    cyc,        \* observations of the running cycle (what was attempted, start state)
    newCount,   \* plain sites, per key: delivered notifications listing the key
    committed,  \* per site: keys that have ever been written to the seen file
    alerted,    \* per key: time of the last re-alert committed to the cooldown store
    lostCommit, \* plain sites where an interruption hit between a delivered
                \* notification and save_seen_products
    cycles,     \* number of cycles started
    main,       \* run_checker.main: the selection, the position in it, how it ended
    other       \* a second invocation of run(), while it is not the one taking steps

vars ==
    <<fs, clock, pc, loc, cyc, newCount, committed, alerted, lostCommit, cycles,
      main, other>>

----------------------------------------------------------------------------
(* Bounds of the model *)

MaxPlainCycles == 3
MaxCooldownCycles == 2
MaxProducts == 2
MaxPeriods == 2

(* taylor_swift.py:20 *)
SIGNED_COOLDOWN_SECONDS == 7200

----------------------------------------------------------------------------
(* Sites and file names *)

(* site_name, as words and the characters between them *)
JonasName == <<"Jonas", " ", "Brothers">>
TaylorName == <<"Taylor", " ", "Swift">>

Sites == {JonasName, TaylorName}

(* str.lower() on the words of the site names *)
LowerWords ==
    [w \in {"Jonas", "Brothers", "Taylor", "Swift", "Banquet", "Records", "Noah",
            "Kahan", "Store", "Benson", "Boone", "Gracie", "Abrams"} |->
        CASE w = "Jonas" -> "jonas"
          [] w = "Brothers" -> "brothers"
          [] w = "Taylor" -> "taylor"
          [] w = "Swift" -> "swift"
          [] w = "Banquet" -> "banquet"
          [] w = "Records" -> "records"
          [] w = "Noah" -> "noah"
          [] w = "Kahan" -> "kahan"
          [] w = "Store" -> "store"
          [] w = "Benson" -> "benson"
          [] w = "Boone" -> "boone"
          [] w = "Gracie" -> "gracie"
          [] w = "Abrams" -> "abrams"]

lower(w) == IF w \in DOMAIN LowerWords THEN LowerWords[w] ELSE w

(* a safe name that forgets the site: every site gets the same files *)
safe_name_of_shared(s) == <<"site">>

(* site_name.lower().replace(' ', '_').replace("'", "") *)
RECURSIVE safe_name_of(_)
safe_name_of(s) ==
    IF s = <<>> THEN <<>>
    ELSE LET c == lower(Head(s))
             rest == safe_name_of(Tail(s))
         IN  IF c = " " THEN <<"_">> \o rest
             ELSE IF c = "'" THEN rest
             ELSE <<c>> \o rest

(* f"{self._safe_name}_seen.json" and the like: the safe name followed by the *)
(* suffix, "_signed_seen.json" being "_signed" followed by "_seen.json"       *)
seen_products_file(site) == safe_name_of(site) \o <<"_seen.json">>
lock_file(site) == safe_name_of(site) \o <<"_sent.lock">>
signed_seen_file(site) == safe_name_of(site) \o <<"_signed", "_seen.json">>

IsCooldownSite(site) == site = TaylorName

FileNames ==
    {seen_products_file(s) : s \in Sites} \cup {lock_file(s) : s \in Sites}
        \cup {signed_seen_file(s) : s \in {t \in Sites : IsCooldownSite(t)}}

----------------------------------------------------------------------------
(* Listings *)

Urls == { <<"a">>, <<"a", "?", "x">>, <<"b">> }

(* a key that keeps the query string (C12 rejects it) *)
clean_url_whole(u) == u

(* product['url'].split('?')[0] *)
clean_url(u) ==
    LET q == {i \in 1..Len(u) : u[i] = "?"}
    IN  IF q = {} THEN u
        ELSE SubSeq(u, 1, (CHOOSE i \in q : \A j \in q : i <= j) - 1)

Keys == {clean_url(u) : u \in Urls}

Product(u, s, a) == [url |-> u, is_signed |-> s, is_available |-> a]

(* what the cooldown site's store can list: a signed product, in stock or *)
(* sold out; a second product, signed or not                              *)
TaylorCatalog ==
    { Product(<<"a">>, TRUE, TRUE), Product(<<"a">>, TRUE, FALSE),
      Product(<<"b">>, TRUE, TRUE), Product(<<"b">>, FALSE, TRUE) }

(* a plain site's listings carry no is_signed / is_available *)
ProductsOf(site) ==
    IF IsCooldownSite(site)
    THEN TaylorCatalog
    ELSE {Product(u, FALSE, FALSE) : u \in Urls}

SeqsUpTo(S, n) == UNION {[1..k -> S] : k \in 0..n}

Range(s) == {s[i] : i \in 1..Len(s)}

Times ==
    {0} \cup {p * SIGNED_COOLDOWN_SECONDS + d : p \in 1..MaxPeriods, d \in {-1, 0}}

----------------------------------------------------------------------------
(* The stores: files of data/seen, written and read as JSON *)

Missing == [tag |-> "missing"]

EmptyMap == [k \in {} |-> 0]

(* a file json.load cannot parse *)
Garbage == [tag |-> "garbage"]

(* a file holding a JSON number *)
NumberFile == [tag |-> "number"]

RECURSIVE list_of(_)
list_of(S) ==
    IF S = {} THEN <<>>
    ELSE LET x == CHOOSE y \in S : TRUE
         IN  <<x>> \o list_of(S \ {x})

(* json.dump(list(seen_products), f) *)
save_seen_products(seen_products) == [tag |-> "list", items |-> list_of(seen_products)]

(* a load that forgets the file: every key is unseen again (C4 rejects it) *)
load_seen_products_forgetful(content) == {}

(* set(json.load(f)), and set() for a missing or unreadable file *)
load_seen_products(content) ==
    CASE content.tag = "list" -> Range(content.items)
      [] content.tag = "object" -> DOMAIN content.map
      [] OTHER -> {}

(* json.dump(data, f) of the {url: last_alerted_timestamp} dict *)
save_signed_seen(data) == [tag |-> "object", map |-> data]

(* json.load(f), and {} for a missing or unreadable file *)
load_signed_seen(content) ==
    CASE content.tag = "object" -> content.map
      [] OTHER -> EmptyMap

(* _load_signed_seen hands back whatever json.load returned: a dict for a   *)
(* JSON object, and a list or a number (no dict; load_signed_seen stands    *)
(* for it with the empty map) for a file of another shape                   *)
loads_dict(content) == content.tag \in {"missing", "garbage", "object"}

----------------------------------------------------------------------------
(* Detection: the categorisation loops of run() *)

url_key(p) == clean_url(p.url)

all_current_urls(products) == {url_key(products[i]) : i \in 1..Len(products)}

(* a comparison of the raw URL with the seen set (C11 rejects it) *)
new_products_by_raw_url(products, seen_products) ==
    SelectSeq(products, LAMBDA p : p.url \notin seen_products)

new_products(products, seen_products) ==
    SelectSeq(products, LAMBDA p : url_key(p) \notin seen_products)

(* an absent key taken as alerted at the cooldown itself (C10 rejects it) *)
last_alerted_at_cooldown(signed_seen, k) ==
    IF k \in DOMAIN signed_seen THEN signed_seen[k] ELSE SIGNED_COOLDOWN_SECONDS

last_alerted(signed_seen, k) ==
    IF k \in DOMAIN signed_seen THEN signed_seen[k] ELSE 0

(* a comparison that is due one second early (C9 rejects it) *)
past_cooldown_early(now, last) == (now - last) >= SIGNED_COOLDOWN_SECONDS - 1

past_cooldown(now, last) == (now - last) >= SIGNED_COOLDOWN_SECONDS

signed_in_stock(products, signed_seen, now) ==
    SelectSeq(products,
              LAMBDA p : /\ p.is_signed
                         /\ p.is_available
                         /\ past_cooldown(now, last_alerted(signed_seen, url_key(p))))

signed_urls(in_stock) == {url_key(in_stock[i]) : i \in 1..Len(in_stock)}

(* the listings of the new-item email of the cooldown site *)
new_non_signed(new, in_stock) ==
    SelectSeq(new, LAMBDA p : url_key(p) \notin signed_urls(in_stock))

(* an update that keeps only the re-alerted keys (C7 rejects it) *)
signed_seen_update_dropping(signed_seen, in_stock, now) ==
    [k \in signed_urls(in_stock) |-> now]

(* signed_seen after "for p in signed_in_stock: signed_seen[key] = now" *)
signed_seen_update(signed_seen, in_stock, now) ==
    [k \in DOMAIN signed_seen \cup signed_urls(in_stock) |->
        IF k \in signed_urls(in_stock) THEN now ELSE signed_seen[k]]

(* a run() that, finding nothing new, keeps only the keys still listed (C21 rejects it) *)
seen_update_pruning(seen_products, current, new) ==
    IF new # <<>> THEN seen_products \cup current ELSE seen_products \cap current

(* a run() that stores only the current listing (C13 rejects it) *)
seen_update_replacing(seen_products, current, new) ==
    IF new # <<>> THEN current ELSE seen_products

(* a run() that never merges all_current_urls (C5 rejects it) *)
seen_update_skipped(seen_products, current, new) == seen_products

(* seen_products as handed to save_seen_products *)
seen_update(seen_products, current, new) ==
    IF new # <<>> THEN seen_products \cup current ELSE seen_products

----------------------------------------------------------------------------
(* What the remote site answers to one page request *)

Failure == [ok |-> FALSE, items |-> <<>>]

(* an error, a non-200 status or a timeout; or status 200 with up to `room` listings *)
PageResponses(site, room) ==
    {Failure} \cup {[ok |-> TRUE, items |-> s] : s \in SeqsUpTo(ProductsOf(site), room)}

----------------------------------------------------------------------------
(* State *)

NoSite == <<>>

IdleLoc ==
    [site |-> NoSite, now |-> 0, page |-> 1, products |-> <<>>,
     seen_products |-> {}, signed_seen |-> EmptyMap,
     new_products |-> <<>>, signed_in_stock |-> <<>>, all_current_urls |-> {}]

(* per cycle: the files at its start, whether a page request failed, where the *)
(* cycle was interrupted, the outcome and number of attempts of each           *)
(* notification, and the listings of the new-item notification                 *)
FreshCyc(files) ==
    [fs0 |-> files, fetch_failed |-> FALSE, interrupted_at |-> "none",
     signed_sent |-> "none", new_sent |-> "none",
     signed_attempts |-> 0, new_attempts |-> 0, new_body |-> <<>>]

(* no batch: run() is invoked directly *)
NoBatch == [sites_to_run |-> <<>>, i |-> 1, status |-> "none"]

(* an invocation of run() that is not taking steps: its position and locals *)
Suspended(p, l, c) == [pc |-> p, loc |-> l, cyc |-> c]

(* the state before any cycle, with `files` in data/seen and `batch` to run *)
InitWith(files, batch) ==
    /\ fs = files
    /\ clock = 0
    /\ pc = "idle"
    /\ loc = IdleLoc
    /\ cyc = FreshCyc(files)
    /\ newCount = [s \in {t \in Sites : ~IsCooldownSite(t)} |-> [k \in Keys |-> 0]]
    /\ committed = [s \in Sites |-> {}]
    /\ alerted = EmptyMap
    /\ lostCommit = {}
    /\ cycles = 0
    /\ main = batch
    /\ other = Suspended("idle", IdleLoc, FreshCyc(files))

(* first run: data/seen holds no file *)
Init == InitWith([f \in FileNames |-> Missing], NoBatch)

----------------------------------------------------------------------------
(* Control flow of run() *)

(* where the cooldown site's run() goes after the signed-alert block *)
AfterSignedPc(l) ==
    IF l.new_products # <<>> /\ new_non_signed(l.new_products, l.signed_in_stock) # <<>>
    THEN "send_new"
    ELSE "save_seen"

(* where run() goes after the categorisation loop *)
AfterDetectPc(l) ==
    IF IsCooldownSite(l.site)
    THEN IF l.signed_in_stock # <<>> THEN "send_signed" ELSE AfterSignedPc(l)
    ELSE IF l.new_products # <<>> THEN "send_new" ELSE "save_seen"

(* a run() that commits whatever send_email returned (C2 rejects it) *)
AfterSendNewPc_unconditional(site, ok) == "save_seen"

(* where run() goes after the new-item send_email returned ok *)
AfterSendNewPc(site, ok) ==
    IF IsCooldownSite(site) THEN "save_seen"
    ELSE IF ok THEN "save_seen" ELSE "done"

(* where run() goes after save_seen_products *)
AfterSaveSeenPc(l) ==
    IF ~IsCooldownSite(l.site) /\ l.new_products # <<>> THEN "write_lock" ELSE "done"

(* the listings of the new-item email *)
NewItemsBody(l) ==
    IF IsCooldownSite(l.site)
    THEN new_non_signed(l.new_products, l.signed_in_stock)
    ELSE l.new_products

(* a categorisation loop that marks what it classifies as seen (C19 rejects it) *)
Categorized_marking(l, products) ==
    IF products = <<>> THEN [l EXCEPT !.products = products, !.page = 1]
    ELSE [l EXCEPT !.products = products,
                   !.page = 1,
                   !.all_current_urls = all_current_urls(products),
                   !.new_products = new_products(products, l.seen_products),
                   !.seen_products = @ \cup all_current_urls(products),
                   !.signed_in_stock =
                       IF IsCooldownSite(l.site)
                       THEN signed_in_stock(products, l.signed_seen, l.now)
                       ELSE <<>>]

(* locals after fetch_products returned `products` (its page counter is gone): *)
(* "if not products: return", then the categorisation loop                     *)
Categorized(l, products) ==
    IF products = <<>> THEN [l EXCEPT !.products = products, !.page = 1]
    ELSE [l EXCEPT !.products = products,
                   !.page = 1,
                   !.all_current_urls = all_current_urls(products),
                   !.new_products = new_products(products, l.seen_products),
                   !.signed_in_stock =
                       IF IsCooldownSite(l.site)
                       THEN signed_in_stock(products, l.signed_seen, l.now)
                       ELSE <<>>]

(* signed_seen.get(clean_url, 0) is reached for a signed and available      *)
(* listing, and raises AttributeError when signed_seen is no dict           *)
GetRaises(l, products, files) ==
    /\ IsCooldownSite(l.site)
    /\ ~loads_dict(files[signed_seen_file(l.site)])
    /\ \E i \in 1..Len(products) : products[i].is_signed /\ products[i].is_available

AfterFetch(products, failed) ==
    IF GetRaises(loc, products, cyc.fs0)
    THEN /\ loc' = [loc EXCEPT !.products = products, !.page = 1]
         /\ cyc' = [cyc EXCEPT !.fetch_failed = failed, !.interrupted_at = "categorize"]
         /\ pc' = "done"
    ELSE /\ loc' = Categorized(loc, products)
         /\ cyc' = [cyc EXCEPT !.fetch_failed = failed]
         /\ pc' = IF products = <<>> THEN "done" ELSE AfterDetectPc(loc')

(* newCount, with the keys of `body` counted once more (2 stands for "twice or more") *)
Counted(body, site) ==
    IF IsCooldownSite(site) THEN newCount
    ELSE [newCount EXCEPT ![site] =
            [k \in Keys |->
                IF k \in all_current_urls(body) /\ @[k] < 2 THEN @[k] + 1 ELSE @[k]]]

----------------------------------------------------------------------------
(* Steps of a cycle *)

(* the locals of run() once the stores are loaded from `files` at time t *)
LoadedLoc(files, site, t) ==
    [IdleLoc EXCEPT
        !.site = site,
        !.now = t,
        !.seen_products = load_seen_products(files[seen_products_file(site)]),
        !.signed_seen =
            IF IsCooldownSite(site)
            THEN load_signed_seen(files[signed_seen_file(site)])
            ELSE EmptyMap]

(* a run() that returns at once when a lock file is there (C17 rejects it) *)
AfterLoadPc_guarded(files, site) ==
    IF files[lock_file(site)] # Missing THEN "done" ELSE "fetch"

(* where run() goes once the stores are loaded: lock_file is not looked at *)
AfterLoadPc(files, site) == "fetch"

MaxCyclesOf(site) == IF IsCooldownSite(site) THEN MaxCooldownCycles ELSE MaxPlainCycles

(* run(): now = time.time() (the cooldown site; a plain site's run() reads the *)
(* clock only to format log text), load_seen_products, _load_signed_seen       *)
Begin(site, t) ==
    /\ pc \in {"idle", "done"}
    /\ cycles < MaxCyclesOf(site)
    /\ t >= clock
    /\ IsCooldownSite(site) \/ t = clock
    /\ clock' = t
    /\ cycles' = cycles + 1
    /\ loc' = LoadedLoc(fs, site, t)
    /\ cyc' = FreshCyc(fs)
    /\ pc' = AfterLoadPc(fs, site)
    /\ UNCHANGED <<other, fs, newCount, committed, alerted, lostCommit>>

(* ProductChecker.fetch_products: one request; [] on any error *)
FetchProducts(resp) ==
    /\ pc = "fetch"
    /\ ~IsCooldownSite(loc.site)
    /\ AfterFetch(IF resp.ok THEN resp.items ELSE <<>>, ~resp.ok)
    /\ UNCHANGED <<main, other, fs, clock, newCount, committed, alerted, lostCommit, cycles>>

(* TaylorSwiftChecker.fetch_products: one iteration of the page loop *)
FetchPage(resp) ==
    /\ pc = "fetch"
    /\ IsCooldownSite(loc.site)
    /\ IF resp.ok /\ resp.items # <<>>
       THEN /\ loc' = [loc EXCEPT !.products = @ \o resp.items, !.page = @ + 1]
            /\ pc' = "fetch"
            /\ UNCHANGED cyc
       ELSE AfterFetch(loc.products, ~resp.ok)
    /\ UNCHANGED <<main, other, fs, clock, newCount, committed, alerted, lostCommit, cycles>>

(* the signed alert: send_email(subject, _build_signed_email(signed_in_stock)) *)
SendSigned(ok) ==
    /\ pc = "send_signed"
    /\ cyc' = [cyc EXCEPT !.signed_sent = IF ok THEN "ok" ELSE "fail",
                          !.signed_attempts = @ + 1]
    /\ pc' = IF ok THEN "save_signed" ELSE AfterSignedPc(loc)
    /\ UNCHANGED <<main, other, fs, clock, loc, newCount, committed, alerted, lostCommit, cycles>>

(* signed_seen[key] = now for the alerted listings; _save_signed_seen *)
SaveSigned ==
    /\ pc = "save_signed"
    /\ loc' = [loc EXCEPT !.signed_seen =
                  signed_seen_update(loc.signed_seen, loc.signed_in_stock, loc.now)]
    /\ fs' = [fs EXCEPT ![signed_seen_file(loc.site)] = save_signed_seen(loc'.signed_seen)]
    /\ alerted' = [k \in DOMAIN alerted \cup signed_urls(loc.signed_in_stock) |->
                      IF k \in signed_urls(loc.signed_in_stock) THEN loc.now ELSE alerted[k]]
    /\ pc' = AfterSignedPc(loc)
    /\ UNCHANGED <<main, other, clock, cyc, newCount, committed, lostCommit, cycles>>

(* the new-item alert: send_email(subject, build_email_body(...)) *)
SendNew(ok) ==
    /\ pc = "send_new"
    /\ cyc' = [cyc EXCEPT !.new_sent = IF ok THEN "ok" ELSE "fail",
                          !.new_attempts = @ + 1,
                          !.new_body = NewItemsBody(loc)]
    /\ newCount' = IF ok THEN Counted(NewItemsBody(loc), loc.site) ELSE newCount
    /\ pc' = AfterSendNewPc(loc.site, ok)
    /\ UNCHANGED <<main, other, fs, clock, loc, committed, alerted, lostCommit, cycles>>

(* seen_products.update(all_current_urls) when there were new products; *)
(* save_seen_products(seen_products)                                    *)
SaveSeen ==
    /\ pc = "save_seen"
    /\ loc' = [loc EXCEPT !.seen_products =
                  seen_update(loc.seen_products, loc.all_current_urls, loc.new_products)]
    /\ fs' = [fs EXCEPT ![seen_products_file(loc.site)] =
                  save_seen_products(loc'.seen_products)]
    /\ committed' = [committed EXCEPT ![loc.site] = @ \cup loc'.seen_products]
    /\ pc' = AfterSaveSeenPc(loc)
    /\ UNCHANGED <<main, other, clock, cyc, newCount, alerted, lostCommit, cycles>>

(* the lock file: 'sent at {timestamp}\nNew items: {len(new_products)}' *)
WriteLock ==
    /\ pc = "write_lock"
    /\ fs' = [fs EXCEPT ![lock_file(loc.site)] =
                  [tag |-> "text", new_items |-> Len(loc.new_products)]]
    /\ pc' = "done"
    /\ UNCHANGED <<main, other, clock, loc, cyc, newCount, committed, alerted, lostCommit, cycles>>

(* the process is killed, or a file write raises, between two steps of run(); *)
(* before the first send_email of the cycle an interruption leaves no more    *)
(* trace than a failed fetch does, and is not a step of its own               *)
Interrupt ==
    /\ pc \in {"save_signed", "send_new", "save_seen", "write_lock"}
    /\ cyc.signed_attempts + cyc.new_attempts > 0
    /\ cyc' = [cyc EXCEPT !.interrupted_at = pc]
    /\ lostCommit' =
         IF ~IsCooldownSite(loc.site) /\ pc = "save_seen" /\ cyc.new_sent = "ok"
         THEN lostCommit \cup {loc.site}
         ELSE lostCommit
    /\ pc' = "done"
    /\ UNCHANGED <<other, fs, clock, loc, newCount, committed, alerted, cycles>>

(* cycles of a plain site only *)
PlainNext ==
    \/ \E t \in Times : Begin(JonasName, t) /\ UNCHANGED main
    \/ \E resp \in PageResponses(loc.site, MaxProducts) : FetchProducts(resp)
    \/ \E ok \in BOOLEAN : SendNew(ok)
    \/ SaveSeen
    \/ WriteLock
    \/ Interrupt /\ UNCHANGED main

PlainSpec == Init /\ [][PlainNext]_vars

(* cycles of the cooldown site only *)
CooldownNext ==
    \/ \E t \in Times : Begin(TaylorName, t) /\ UNCHANGED main
    \/ \E resp \in PageResponses(loc.site, MaxProducts - Len(loc.products)) : FetchPage(resp)
    \/ \E ok \in BOOLEAN : SendSigned(ok)
    \/ SaveSigned
    \/ \E ok \in BOOLEAN : SendNew(ok)
    \/ SaveSeen
    \/ Interrupt /\ UNCHANGED main

CooldownSpec == Init /\ [][CooldownNext]_vars

(* cycles of every site, in any order *)
Next ==
    \/ \E site \in Sites, t \in Times : Begin(site, t) /\ UNCHANGED main
    \/ \E resp \in PageResponses(loc.site, MaxProducts) : FetchProducts(resp)
    \/ \E resp \in PageResponses(loc.site, MaxProducts - Len(loc.products)) : FetchPage(resp)
    \/ \E ok \in BOOLEAN : SendSigned(ok)
    \/ SaveSigned
    \/ \E ok \in BOOLEAN : SendNew(ok)
    \/ SaveSeen
    \/ WriteLock
    \/ Interrupt /\ UNCHANGED main

Spec == Init /\ [][Next]_vars

----------------------------------------------------------------------------
(* Observations shared by the properties *)

(* the persisted seen set of a site, as the next cycle will load it *)
SeenKeys(site) == load_seen_products(fs[seen_products_file(site)])

InCycle == loc.site # NoSite

(* the categorisation loop has run and the run went past "if not products" *)
Detected == InCycle /\ pc # "fetch" /\ loc.products # <<>>

(* run() returned by itself *)
Completed == InCycle /\ pc = "done" /\ cyc.interrupted_at = "none"

(* the keys re-alerted by a delivered signed alert of this cycle *)
ReAlertedOk == IF cyc.signed_sent = "ok" THEN signed_urls(loc.signed_in_stock) ELSE {}

(* the keys listed in the notifications this cycle delivered *)
DeliveredKeys ==
    ReAlertedOk \cup (IF cyc.new_sent = "ok" THEN all_current_urls(cyc.new_body) ELSE {})

----------------------------------------------------------------------------
(* C1: a key enters the persisted seen set only in a cycle that delivered a *)
(* notification listing it.                                                 *)
C1_SeenOnlyDelivered ==
    InCycle =>
        SeenKeys(loc.site) \ load_seen_products(cyc.fs0[seen_products_file(loc.site)])
            \subseteq DeliveredKeys

(* C2: plain site: when the new-item send_email fails, the seen file is     *)
(* what it was at the start of the cycle, and a following cycle with the    *)
(* same fetch output classifies the same listings as new.                   *)
C2_NoLossOnFailure ==
    (/\ InCycle
     /\ ~IsCooldownSite(loc.site)
     /\ pc = "done"
     /\ cyc.new_sent = "fail")
    => /\ fs[seen_products_file(loc.site)] = cyc.fs0[seen_products_file(loc.site)]
       /\ \A t \in Times :
            Categorized(LoadedLoc(fs, loc.site, t), loc.products).new_products
                = loc.new_products

C2_Witness ==
    /\ InCycle
    /\ ~IsCooldownSite(loc.site)
    /\ pc = "done"
    /\ cyc.new_sent = "fail"
    /\ Len(loc.new_products) = 1
    /\ Len(loc.products) = 2
    /\ cyc.fs0[seen_products_file(loc.site)] # Missing

(* C3: a new listing that no notification of this cycle delivered, and that *)
(* the signed alert does not retry, is still unseen when the cycle ends, so *)
(* the next cycle detects it again.                                         *)
C3_RetriedUntilDelivered ==
    Completed =>
        \A i \in 1..Len(loc.new_products) :
            LET k == url_key(loc.new_products[i])
            IN  (k \notin DeliveredKeys /\ k \notin signed_urls(loc.signed_in_stock))
                    => k \notin SeenKeys(loc.site)

(* C4: plain site: a key that was ever written to the seen file is never    *)
(* classified as new by a later cycle.                                      *)
C4_AtMostOnceNew ==
    (InCycle /\ ~IsCooldownSite(loc.site) /\ pc = "send_new")
        => \A i \in 1..Len(loc.new_products) :
              url_key(loc.new_products[i]) \notin committed[loc.site]

C4_Witness ==
    /\ InCycle
    /\ ~IsCooldownSite(loc.site)
    /\ pc = "send_new"
    /\ committed[loc.site] \cap loc.all_current_urls # {}
    /\ loc.new_products # <<>>

C6_FailedFetchNoMutation ==
    (InCycle /\ pc # "fetch" /\ (cyc.fetch_failed \/ loc.products = <<>>))
        => /\ pc = "done"
           /\ fs = cyc.fs0
           /\ cyc.signed_attempts = 0
           /\ cyc.new_attempts = 0

(* C7: the cooldown store is written only after a delivered signed alert:   *)
(* then exactly the re-alerted keys are set to the cycle's now, every other *)
(* entry of the store keeps its value; after a failed signed alert, or      *)
(* without one, the file is what it was at the start of the cycle.  The     *)
(* signed alert is attempted at most once per cycle.                        *)
C7_CooldownCommit ==
    (InCycle /\ IsCooldownSite(loc.site)) =>
        LET f == signed_seen_file(loc.site)
            C0 == load_signed_seen(cyc.fs0[f])
            K == signed_urls(loc.signed_in_stock)
            saved == cyc.signed_sent = "ok" /\ pc # "save_signed"
                        /\ cyc.interrupted_at # "save_signed"
        IN  /\ cyc.signed_attempts <= 1
            /\ cyc.signed_attempts = 1 => loc.signed_in_stock # <<>>
            /\ ~saved => fs[f] = cyc.fs0[f]
            /\ saved =>
                 /\ fs[f].tag = "object"
                 /\ DOMAIN fs[f].map = DOMAIN C0 \cup K
                 /\ \A k \in K : fs[f].map[k] = loc.now
                 /\ \A k \in DOMAIN C0 \ K : fs[f].map[k] = C0[k]

C7_Witness ==
    /\ Completed
    /\ IsCooldownSite(loc.site)
    /\ cyc.signed_sent = "ok"
    /\ \E k \in DOMAIN load_signed_seen(cyc.fs0[signed_seen_file(loc.site)]) :
          /\ k \notin signed_urls(loc.signed_in_stock)
          /\ k \in loc.all_current_urls

(* C8: the new-item notification of the cooldown site lists exactly the new *)
(* listings whose key was not re-alerted by a delivered signed alert of the *)
(* same cycle.                                                              *)
C8_NewExcludesOnlyDelivered ==
    (Completed /\ IsCooldownSite(loc.site)) =>
        cyc.new_body =
            SelectSeq(loc.new_products, LAMBDA p : url_key(p) \notin ReAlertedOk)

(* C9: a signed and available listing whose key was last re-alerted (and    *)
(* committed) at time T is left out of signed_in_stock while                *)
(* 0 <= now - T < cooldown, and is in it once now - T >= cooldown.          *)
C9_Cooldown ==
    (Detected /\ IsCooldownSite(loc.site) /\ cyc.signed_sent = "none") =>
        \A i \in 1..Len(loc.products) :
            LET p == loc.products[i]
                k == url_key(p)
            IN  (p.is_signed /\ p.is_available /\ k \in DOMAIN alerted) =>
                    /\ (0 <= loc.now - alerted[k]
                          /\ loc.now - alerted[k] < SIGNED_COOLDOWN_SECONDS)
                         => p \notin Range(loc.signed_in_stock)
                    /\ loc.now - alerted[k] >= SIGNED_COOLDOWN_SECONDS
                         => p \in Range(loc.signed_in_stock)

C9_Witness ==
    /\ Detected
    /\ IsCooldownSite(loc.site)
    /\ cyc.signed_sent = "none"
    /\ \E i \in 1..Len(loc.products) :
          LET k == url_key(loc.products[i])
          IN  /\ k \in DOMAIN alerted
              /\ loc.now - alerted[k] = SIGNED_COOLDOWN_SECONDS
              /\ loc.products[i] \in Range(loc.signed_in_stock)

(* a signed and available listing of this cycle whose key the loaded        *)
(* cooldown store does not hold                                             *)
FirstSight(p) ==
    /\ p.is_signed
    /\ p.is_available
    /\ url_key(p) \notin DOMAIN load_signed_seen(cyc.fs0[signed_seen_file(loc.site)])

(* C10 as claimed: a signed and available listing whose key is absent from  *)
(* the cooldown store is due for re-alert, whatever now is.                 *)
C10_AlwaysDueOnFirstSight ==
    (Detected /\ IsCooldownSite(loc.site)) =>
        \A i \in 1..Len(loc.products) :
            FirstSight(loc.products[i]) => loc.products[i] \in Range(loc.signed_in_stock)

(* C10 amended: an absent key counts as last alerted at 0, so such a        *)
(* listing is due exactly when now >= cooldown.                             *)
C10_DueOnFirstSightPastCooldown ==
    (Detected /\ IsCooldownSite(loc.site)) =>
        \A i \in 1..Len(loc.products) :
            FirstSight(loc.products[i]) =>
                (loc.products[i] \in Range(loc.signed_in_stock)
                    <=> loc.now - 0 >= SIGNED_COOLDOWN_SECONDS)

C10_Witness ==
    /\ Detected
    /\ IsCooldownSite(loc.site)
    /\ pc = "send_signed"
    /\ loc.now = SIGNED_COOLDOWN_SECONDS
    /\ \E i \in 1..Len(loc.products) : FirstSight(loc.products[i])

----------------------------------------------------------------------------
(* the positions of `products` whose canonical key is not in `seen` *)
UnseenPositions(products, seen) ==
    {i \in 1..Len(products) : clean_url(products[i].url) \notin seen}

(* sub lists exactly the positions P of s, in the order of s *)
ListsInOrder(sub, s, P) ==
    /\ Len(sub) = Cardinality(P)
    /\ \E f \in [1..Len(sub) -> P] :
          /\ \A i, j \in 1..Len(sub) : i < j => f[i] < f[j]
          /\ \A i \in 1..Len(sub) : sub[i] = s[f[i]]

(* C11: a fetched listing is in new_products iff its canonical key (the URL *)
(* up to the query string) is not in the seen set loaded at the start of    *)
(* the cycle; new_products keeps the fetch order; when detection is done    *)
(* (no notification attempted yet, nothing saved yet) no file has changed.  *)
C11_DetectionRule ==
    Detected =>
        LET seen0 == load_seen_products(cyc.fs0[seen_products_file(loc.site)])
        IN  /\ ListsInOrder(loc.new_products, loc.products,
                            UnseenPositions(loc.products, seen0))
            /\ (/\ cyc.signed_attempts = 0
                /\ cyc.new_attempts = 0
                /\ pc \in {"send_signed", "send_new", "save_seen"})
                  => fs = cyc.fs0

C11_Witness ==
    /\ Detected
    /\ ~IsCooldownSite(loc.site)
    /\ pc = "send_new"
    /\ cyc.new_attempts = 0
    /\ Len(loc.products) = 2
    /\ Len(loc.new_products) = 1
    /\ loc.products[2] = loc.new_products[1]
    /\ loc.products[1].url = <<"a", "?", "x">>
    /\ <<"a">> \in loc.seen_products

(* u is `base`, or `base` followed by a query string *)
IsQueryVariant(u, base) ==
    \/ u = base
    \/ /\ Len(u) > Len(base)
       /\ SubSeq(u, 1, Len(base)) = base
       /\ u[Len(base) + 1] = "?"

(* the URLs of the model that carry no query string *)
Paths == {u \in Urls : \A i \in 1..Len(u) : u[i] # "?"}

(* this cycle has run save_seen_products *)
SeenSaved ==
    \/ pc = "write_lock"
    \/ pc = "done" /\ cyc.interrupted_at \notin {"save_signed", "send_new", "save_seen"}
                   /\ (cyc.new_sent = "ok" \/ IsCooldownSite(loc.site)
                         \/ loc.new_products = <<>>)
                   /\ loc.products # <<>>

(* C12: fetched listings whose URLs differ only by the query string have    *)
(* the same canonical key: they make one entry of all_current_urls and,     *)
(* once the cycle has saved, one entry of the seen file.                    *)
C12_OneKeyPerPath ==
    Detected =>
        \A i, j \in 1..Len(loc.products) :
            LET u == loc.products[i].url
                v == loc.products[j].url
            IN  (\E base \in Paths : IsQueryVariant(u, base) /\ IsQueryVariant(v, base))
                => /\ url_key(loc.products[i]) = url_key(loc.products[j])
                   /\ Cardinality({k \in loc.all_current_urls : IsQueryVariant(u, k)}) = 1
                   /\ (SeenSaved /\ loc.new_products # <<>>)
                        => LET items == fs[seen_products_file(loc.site)].items
                           IN  Cardinality({n \in 1..Len(items) :
                                               IsQueryVariant(u, items[n])}) = 1

C12_Witness ==
    /\ Completed
    /\ SeenSaved
    /\ cyc.new_sent = "ok"
    /\ Len(loc.products) = 2
    /\ loc.products[1].url = <<"a", "?", "x">>
    /\ loc.products[2].url = <<"a">>

(* C13: a cycle that found new listings and delivered their notification    *)
(* leaves a seen file holding exactly the seen set loaded at its start      *)
(* united with all_current_urls.                                            *)
C13_CommitOnSuccess ==
    (Completed /\ loc.new_products # <<>> /\ cyc.new_sent = "ok") =>
        LET seen0 == load_seen_products(cyc.fs0[seen_products_file(loc.site)])
            current == {clean_url(loc.products[i].url) : i \in 1..Len(loc.products)}
        IN  /\ fs[seen_products_file(loc.site)].tag = "list"
            /\ Range(fs[seen_products_file(loc.site)].items) = seen0 \cup current

C13_Witness ==
    /\ Completed
    /\ cyc.new_sent = "ok"
    /\ Len(loc.new_products) = 1
    /\ \E k \in load_seen_products(cyc.fs0[seen_products_file(loc.site)]) :
          k \notin loc.all_current_urls

----------------------------------------------------------------------------
(* run_checker.main: the batch over the selected sites *)

(* the registry, and the site each key's checker class reports *)
CHECKERS == {"jonas", "taylor"}

site_name_of(site_key) == IF site_key = "taylor" THEN TaylorName ELSE JonasName

(* what the command line can name: registered keys and one that is not *)
SelectionKeys == CHECKERS \cup {"bogus"}

MaxSelection == 2

Selections == SeqsUpTo(SelectionKeys, MaxSelection) \ {<<>>}

MainInit ==
    \E sel \in Selections :
        InitWith([f \in FileNames |-> Missing],
                 [sites_to_run |-> sel, i |-> 1, status |-> "running"])

(* one turn of "for site_key in sites_to_run": get_checker_class, which     *)
(* exits with status 1 for an unknown key or a failing import, then         *)
(* CheckerClass(...) and the start of checker.run()                         *)
GetChecker(import_ok, t) ==
    /\ main.status = "running"
    /\ main.i <= Len(main.sites_to_run)
    /\ pc \in {"idle", "done"}
    /\ LET site_key == main.sites_to_run[main.i]
       IN  IF site_key \notin CHECKERS \/ ~import_ok
           THEN /\ main' = [main EXCEPT !.status = "exit1"]
                /\ UNCHANGED <<fs, clock, pc, loc, cyc, newCount, committed, alerted,
                               lostCommit, cycles, other>>
           ELSE /\ Begin(site_name_of(site_key), t)
                /\ main' = [main EXCEPT !.i = @ + 1]

(* the loop is over: main returns *)
MainReturn ==
    /\ main.status = "running"
    /\ main.i > Len(main.sites_to_run)
    /\ pc \in {"idle", "done"}
    /\ main' = [main EXCEPT !.status = "exit0"]
    /\ UNCHANGED <<fs, clock, pc, loc, cyc, newCount, committed, alerted,
                   lostCommit, cycles, other>>

(* an exception raised inside checker.run() is caught nowhere in main: the  *)
(* process ends with a traceback                                            *)
RunRaises ==
    /\ main.status = "running"
    /\ Interrupt
    /\ main' = [main EXCEPT !.status = "raised"]

MainNext ==
    \/ \E import_ok \in BOOLEAN, t \in Times : GetChecker(import_ok, t)
    \/ MainReturn
    \/ \E resp \in PageResponses(loc.site, MaxProducts) : FetchProducts(resp)
    \/ \E resp \in PageResponses(loc.site, MaxProducts - Len(loc.products)) : FetchPage(resp)
    \/ \E ok \in BOOLEAN : SendSigned(ok)
    \/ SaveSigned
    \/ \E ok \in BOOLEAN : SendNew(ok)
    \/ SaveSeen
    \/ WriteLock
    \/ RunRaises

MainSpec == MainInit /\ [][MainNext]_vars

MainStopped == main.status \in {"exit0", "exit1", "raised"}

AllRegistered ==
    \A n \in 1..Len(main.sites_to_run) : main.sites_to_run[n] \in CHECKERS

(* C14: whatever goes wrong with one selected site (its fetch fails, its    *)
(* notification fails, its checker cannot be loaded, its run() raises),     *)
(* main goes on to the sites after it: when main has stopped, no selected   *)
(* site is left after the one it stopped at.                                *)
C14_BatchContinues ==
    (MainStopped /\ AllRegistered) =>
        IF main.status = "exit1"
        THEN main.i >= Len(main.sites_to_run)
        ELSE main.i > Len(main.sites_to_run)

(* C15: a selection naming an unregistered site makes main exit with a      *)
(* non-zero status before any cycle of that invocation has run.             *)
C15_ConfigErrorFirst ==
    ~AllRegistered =>
        /\ cycles = 0
        /\ fs = [f \in FileNames |-> Missing]
        /\ main.status # "exit0"

----------------------------------------------------------------------------
(* Two invocations of run() for one site (two processes started by the      *)
(* scheduler): the operating system passes control from one to the other    *)
(* between any two steps.  run() takes no lock and reads no lock file.      *)

Switch ==
    /\ other' = Suspended(pc, loc, cyc)
    /\ pc' = other.pc
    /\ loc' = other.loc
    /\ cyc' = other.cyc
    /\ UNCHANGED <<fs, clock, newCount, committed, alerted, lostCommit, cycles, main>>

OverlapNext ==
    \/ \E t \in Times : Begin(JonasName, t) /\ UNCHANGED main
    \/ \E resp \in PageResponses(loc.site, MaxProducts) : FetchProducts(resp)
    \/ \E ok \in BOOLEAN : SendNew(ok)
    \/ SaveSeen
    \/ WriteLock
    \/ Switch

OverlapSpec == Init /\ [][OverlapNext]_vars

(* run() has loaded the seen set and has not returned *)
InFlight(p) == p \notin {"idle", "done"}

(* C16: two cycles of one site never overlap so that both deliver a         *)
(* notification for the same new key: there is no state in which both       *)
(* invocations are between load and return and each has delivered a         *)
(* notification listing one same key.                                       *)
C16_NoOverlappingDelivery ==
    ~ /\ InFlight(pc)
      /\ InFlight(other.pc)
      /\ loc.site = other.loc.site
      /\ cyc.new_sent = "ok"
      /\ other.cyc.new_sent = "ok"
      /\ all_current_urls(cyc.new_body) \cap all_current_urls(other.cyc.new_body) # {}

----------------------------------------------------------------------------
(* C17: whatever the lock file holds when run() starts (nothing, or what an *)
(* earlier or interrupted run left), the cycle goes from load to fetch,     *)
(* and a fetch that returned listings is followed by detection and, when    *)
(* there are new listings, by the notification.                             *)
C17_LockNeverBlocks ==
    [][ /\ (cycles' = cycles + 1) =>
              /\ pc' = "fetch"
              /\ loc'.seen_products =
                    load_seen_products(fs[seen_products_file(loc'.site)])
        /\ (pc = "fetch" /\ pc' # "fetch" /\ loc'.products # <<>>) =>
              /\ ListsInOrder(loc'.new_products, loc'.products,
                              UnseenPositions(loc'.products, loc.seen_products))
              /\ loc'.new_products # <<>> => pc' \in {"send_signed", "send_new"}
      ]_vars

C17_Witness ==
    /\ pc = "send_new"
    /\ ~IsCooldownSite(loc.site)
    /\ cyc.fs0[lock_file(loc.site)] # Missing
    /\ fs[lock_file(loc.site)] # Missing

----------------------------------------------------------------------------
(* One cycle of the cooldown site over stores that something else damaged   *)

SeenFileShapes ==
    { Missing, Garbage, NumberFile,
      [tag |-> "object", map |-> [k \in {<<"a">>} |-> SIGNED_COOLDOWN_SECONDS]],
      [tag |-> "list", items |-> << <<"a">> >>] }

SignedSeenFileShapes ==
    { Missing, Garbage, NumberFile,
      [tag |-> "list", items |-> << <<"a">> >>],
      [tag |-> "object", map |-> [k \in {<<"a">>} |-> SIGNED_COOLDOWN_SECONDS]] }

CorruptInit ==
    \E s \in SeenFileShapes, c \in SignedSeenFileShapes :
        InitWith([f \in FileNames |->
                     IF f = seen_products_file(TaylorName) THEN s
                     ELSE IF f = signed_seen_file(TaylorName) THEN c
                     ELSE Missing],
                 NoBatch)

CorruptNext ==
    \/ \E t \in Times : cycles = 0 /\ Begin(TaylorName, t) /\ UNCHANGED main
    \/ \E resp \in PageResponses(loc.site, MaxProducts - Len(loc.products)) : FetchPage(resp)
    \/ \E ok \in BOOLEAN : SendSigned(ok)
    \/ SaveSigned
    \/ \E ok \in BOOLEAN : SendNew(ok)
    \/ SaveSeen

CorruptSpec == CorruptInit /\ [][CorruptNext]_vars

(* no JSON list: not what save_seen_products writes *)
SeenFileDamaged(content) == content.tag # "list"

(* no JSON object: not what _save_signed_seen writes *)
SignedSeenFileDamaged(content) == content.tag # "object"

(* C18: a seen file or cooldown file that is missing, unparseable or of the *)
(* wrong shape is loaded as an empty store, and the cycle goes on without   *)
(* raising.                                                                 *)
C18_StoreTolerance ==
    (InCycle /\ IsCooldownSite(loc.site)) =>
        LET s0 == cyc.fs0[seen_products_file(loc.site)]
            c0 == cyc.fs0[signed_seen_file(loc.site)]
        IN  /\ (SeenFileDamaged(s0) /\ pc = "fetch") => loc.seen_products = {}
            /\ SignedSeenFileDamaged(c0) =>
                  /\ pc = "fetch" => (loads_dict(c0) /\ loc.signed_seen = EmptyMap)
                  /\ cyc.interrupted_at # "categorize"

----------------------------------------------------------------------------
(* detection is done and nothing has been sent or saved yet *)
JustDetected ==
    /\ Detected
    /\ pc \in {"send_signed", "send_new", "save_seen"}
    /\ cyc.signed_attempts = 0
    /\ cyc.new_attempts = 0

(* C19: running the categorisation loop a second time, on the same fetch    *)
(* result, seen set, cooldown store and now, gives the same new_products    *)
(* and the same signed_in_stock, in the same order.                         *)
C19_DetectionIdempotent ==
    JustDetected =>
        LET again == Categorized(loc, loc.products)
        IN  /\ again.new_products = loc.new_products
            /\ again.signed_in_stock = loc.signed_in_stock
            /\ again.all_current_urls = loc.all_current_urls

C19_Witness ==
    /\ JustDetected
    /\ IsCooldownSite(loc.site)
    /\ loc.seen_products # {}
    /\ loc.new_products # <<>>
    /\ loc.signed_in_stock # <<>>
    /\ Len(loc.products) = 2

----------------------------------------------------------------------------
(* C20: in the cooldown site's cycle a failed send blocks only its own      *)
(* commit: after a failed signed alert the new-item notification is still   *)
(* attempted, and its outcome alone decides whether the seen set is         *)
(* committed; after a failed new-item notification the cooldown store       *)
(* committed by a delivered signed alert stays, and the seen file is what   *)
(* it was at the start of the cycle.                                        *)
C20_SiblingIndependence ==
    (Completed /\ IsCooldownSite(loc.site) /\ loc.new_products # <<>>) =>
        LET f == seen_products_file(loc.site)
            g == signed_seen_file(loc.site)
            seen0 == load_seen_products(cyc.fs0[f])
        IN  /\ cyc.signed_sent = "fail" => cyc.new_attempts = 1
            /\ cyc.new_sent = "ok" => SeenKeys(loc.site) = seen0 \cup loc.all_current_urls
            /\ cyc.new_sent # "ok" => fs[f] = cyc.fs0[f]
            /\ (cyc.new_sent = "fail" /\ cyc.signed_sent = "ok") =>
                  fs[g] = save_signed_seen(
                              signed_seen_update(load_signed_seen(cyc.fs0[g]),
                                                 loc.signed_in_stock, loc.now))

----------------------------------------------------------------------------
(* C21: the persisted seen set only grows: at every point of a cycle it     *)
(* holds every key it held when the cycle started; and a cycle that ran to  *)
(* its end without finding a new listing leaves it equal to what it was.    *)
C21_SeenMonotone ==
    InCycle =>
        LET seen0 == load_seen_products(cyc.fs0[seen_products_file(loc.site)])
        IN  /\ seen0 \subseteq SeenKeys(loc.site)
            /\ (Completed /\ loc.new_products = <<>>) => SeenKeys(loc.site) = seen0

C21_Witness ==
    /\ Completed
    /\ SeenSaved
    /\ loc.new_products = <<>>
    /\ \E k \in load_seen_products(cyc.fs0[seen_products_file(loc.site)]) :
          k \notin loc.all_current_urls

----------------------------------------------------------------------------
(* C22: in the cooldown site's paginated fetch, an error, a timeout or a    *)
(* non-200 status on any page, the first or a later one, makes the cycle a  *)
(* failed fetch: no listing of the earlier pages is processed, no           *)
(* notification is attempted and neither store is written.                  *)
C22_PageFailureFailsCycle ==
    (InCycle /\ IsCooldownSite(loc.site) /\ pc # "fetch" /\ cyc.fetch_failed) =>
        /\ loc.new_products = <<>>
        /\ loc.signed_in_stock = <<>>
        /\ cyc.signed_attempts = 0
        /\ cyc.new_attempts = 0
        /\ fs[seen_products_file(loc.site)] = cyc.fs0[seen_products_file(loc.site)]
        /\ fs[signed_seen_file(loc.site)] = cyc.fs0[signed_seen_file(loc.site)]

----------------------------------------------------------------------------
(* The page loop of TaylorSwiftChecker.fetch_products against a site that   *)
(* may answer every page request with listings.  "while True" has no page   *)
(* limit, so all_products and page are unbounded; this view of the loop     *)
(* keeps the last MaxProducts listings of all_products and counts pages up  *)
(* to MaxPages ("MaxPages or more").                                        *)

MaxPages == 3

LastOf(s, n) == IF Len(s) <= n THEN s ELSE SubSeq(s, Len(s) - n + 1, Len(s))

FetchPageOn(resp) ==
    /\ pc = "fetch"
    /\ IsCooldownSite(loc.site)
    /\ IF resp.ok /\ resp.items # <<>>
       THEN /\ loc' = [loc EXCEPT !.products = LastOf(@ \o resp.items, MaxProducts),
                                  !.page = IF @ < MaxPages THEN @ + 1 ELSE @]
            /\ pc' = "fetch"
            /\ UNCHANGED cyc
       ELSE AfterFetch(loc.products, ~resp.ok)
    /\ UNCHANGED <<main, other, fs, clock, newCount, committed, alerted, lostCommit, cycles>>

PagingNext ==
    \/ \E t \in Times : cycles = 0 /\ Begin(TaylorName, t) /\ UNCHANGED main
    \/ \E resp \in PageResponses(loc.site, 1) : FetchPageOn(resp)
    \/ \E ok \in BOOLEAN : SendSigned(ok)
    \/ SaveSigned
    \/ \E ok \in BOOLEAN : SendNew(ok)
    \/ SaveSeen

(* the process keeps taking steps as long as it has one to take *)
PagingSpec == Init /\ [][PagingNext]_vars /\ WF_vars(PagingNext)

(* C23: every cycle ends: a cycle that is fetching eventually returns,      *)
(* whatever the remote site answers, also when it answers every page        *)
(* request with status 200 and a non-empty product list.                    *)
C23_CycleTerminates == (pc = "fetch") ~> (pc = "done")

----------------------------------------------------------------------------
(* Cycles of different sites, interleaved *)

(* the site names of the other checkers of the registry *)
NoahName == <<"Banquet", " ", "Records", " ", "-", " ", "Noah", " ", "Kahan">>
NoahStoreName == <<"Noah", " ", "Kahan", " ", "Store">>
BensonName == <<"Benson", " ", "Boone">>
GracieName == <<"Gracie", " ", "Abrams">>

(* site_name of every checker class the registry can import *)
RegisteredNames ==
    {JonasName, NoahName, NoahStoreName, BensonName, GracieName, TaylorName}

MaxIsolationCycles == 2

(* two tasks, each running cycles of a site the other is not running; a   *)
(* response brings at most one listing, and the cooldown site runs at a   *)
(* time when a signed listing seen for the first time is due for an alert *)
IsolationNext ==
    \/ \E site \in Sites :
         /\ cycles < MaxIsolationCycles
         /\ other.loc.site # site
         /\ Begin(site, IF IsCooldownSite(site) THEN SIGNED_COOLDOWN_SECONDS ELSE clock)
         /\ UNCHANGED main
    \/ \E resp \in PageResponses(loc.site, 1) : FetchProducts(resp)
    \/ \E resp \in PageResponses(loc.site, IF Len(loc.products) < MaxProducts THEN 1 ELSE 0) :
         FetchPage(resp)
    \/ \E ok \in BOOLEAN : SendSigned(ok)
    \/ SaveSigned
    \/ \E ok \in BOOLEAN : SendNew(ok)
    \/ SaveSeen
    \/ WriteLock
    \/ Switch

IsolationSpec == Init /\ [][IsolationNext]_vars

(* no two registered sites share a seen-set file, and the timestamp file of *)
(* the cooldown site is no site's seen-set file                             *)
OwnFiles ==
    /\ \A s, t \in RegisteredNames :
         s # t => seen_products_file(s) # seen_products_file(t)
    /\ \A s, t \in RegisteredNames :
         IsCooldownSite(t) => signed_seen_file(t) # seen_products_file(s)

(* C24: every registered site has a seen-set file of its own, which is also *)
(* not the cooldown site's timestamp file, and no step of a cycle of one    *)
(* site, however interleaved with cycles of other sites, changes the seen-  *)
(* set file or the timestamp file of any other site.                        *)
C24_CrossSiteIsolation ==
    [][ /\ OwnFiles
        /\ \A s \in Sites \ {loc.site} :
             /\ fs'[seen_products_file(s)] = fs[seen_products_file(s)]
             /\ IsCooldownSite(s) =>
                  fs'[signed_seen_file(s)] = fs[signed_seen_file(s)] ]_vars

(* a cycle of one site has written its seen set while a cycle of another *)
(* site, which has written its own store, is between load and return     *)
C24_Witness ==
    /\ InCycle
    /\ SeenSaved
    /\ fs[seen_products_file(loc.site)] # cyc.fs0[seen_products_file(loc.site)]
    /\ InFlight(other.pc)
    /\ other.loc.site \notin {NoSite, loc.site}
    /\ \E s \in Sites \ {loc.site} :
         /\ s = other.loc.site
         /\ \/ fs[seen_products_file(s)] # Missing
            \/ IsCooldownSite(s) /\ fs[signed_seen_file(s)] # Missing

----------------------------------------------------------------------------
(* the first listing of `products` that has the canonical key k *)
FirstWithKey(products, k) ==
    products[CHOOSE i \in 1..Len(products) :
                /\ url_key(products[i]) = k
                /\ \A j \in 1..(i - 1) : url_key(products[j]) # k]

(* C25: when a fetch holds several listings with one canonical key, the  *)
(* key is classified once: new_products and the new-item notification   *)
(* of the cycle hold at most one listing per key, and that listing is    *)
(* the first of the fetch with that key.                                 *)
C25_DuplicatesCollapse ==
    Detected =>
        /\ \A i, j \in 1..Len(loc.new_products) :
             url_key(loc.new_products[i]) = url_key(loc.new_products[j]) => i = j
        /\ \A i \in 1..Len(loc.new_products) :
             loc.new_products[i] =
                 FirstWithKey(loc.products, url_key(loc.new_products[i]))
        /\ cyc.new_attempts > 0 =>
             \A i, j \in 1..Len(cyc.new_body) :
                url_key(cyc.new_body[i]) = url_key(cyc.new_body[j]) => i = j

====
